---- MODULE Spec2Model ----
(***************************************************************************)
(* Model of the video labeling backend (server.js): the in-memory session  *)
(* video store (POST /api/upload, DELETE /api/cleanup-session/:sessionId)  *)
(* and the clip pipeline of POST /api/snip (validation, workspace,         *)
(* acquisition from the store or from a remote URL, ffmpeg streaming, and  *)
(* workspace removal from the catch block and the response 'close'         *)
(* listener).                                                              *)
(*                                                                         *)
(* Every action is one run-to-completion slice of a handler: the code      *)
(* between two awaits or one event callback.  Timestamps are fixed-point   *)
(* numbers, TsUnit units per second.  An absent JSON field is the falsy    *)
(* value of its type ("" for video_url, 0 for video_id, hasTs = FALSE for  *)
(* timestamp).  Video ids and workspace names stand for uuidv4() values:   *)
(* they are handed out from counters, so each is fresh.                    *)
(***************************************************************************)
EXTENDS Integers, Sequences, FiniteSets, TLC

\* ------------------------------------------------------------------ bounds
MaxReqs == 1        \* snip requests per behaviour
MaxUploads == 2     \* successful uploads per behaviour
MaxSessions == 1    \* session ids a client invents itself
MaxChunks == 1      \* clip chunks ffmpeg writes to one response
MaxRangeIndex == 3  \* largest byte position a Range header names
MaxHours == 12      \* largest timestamp the validator is given, in hours
TsUnit == 10        \* timestamp resolution: units per second

\* ------------------------------------------------------- program constants
MinTimestamp == 60
ClipDuration == 60  \* startTime = timestamp - 60 and '-t 60'

Reqs == 1..MaxReqs
VideoIds == 1..MaxUploads
\* Client-invented session ids, then the ids uuidv4() generates: the upload
\* that receives video id n without an X-Session-Id header gets MaxSessions + n.
SessionIds == 1..(MaxSessions + MaxUploads)
GeneratedSessionIdReused(n) == MaxSessions + 1

GeneratedSessionId(n) == MaxSessions + n

\* The content of the n-th accepted upload: n + 1 bytes no other file has.
FileBytes(n) == [i \in 1..(n + 1) |-> 10 * n + i]
RemoteBytes == <<9>>
NoBytes == <<>>

VARIABLES sessionVideos, nextVideoId, uploadedBy, lastReply, reqs, tmp, proc, ui,
          drive

vars == <<sessionVideos, nextVideoId, uploadedBy, lastReply, reqs, tmp, proc, ui, drive>>

\* The server process: serving, or shutting down after a signal.  snapshot
\* is what is left of the readdir('/tmp') listing the sweep iterates over.
Serving == [phase |-> "serving", snapshot |-> {}]

\* The browser page.  Playback and Mark Event: the uploadedVideo record's
\* videoId (0: null), whether directVideoUrl is set, the player's
\* currentTime, isProcessing, the fetches of /api/snip that have not settled
\* (inFlight, and the server requests they have become: pending), the body
\* last sent (video_id sent, timestamp sentAt) and the error banner.  Upload:
\* isUploading, uploadStage, uploadProgress, currentUploadFile (0: null), the
\* position of the running handleFileUpload and its file, and the reset
\* timers scheduled and not yet fired.
NoUi == [uploadedVideo |-> 0, directVideoUrl |-> FALSE, currentTime |-> 0,
         isProcessing |-> FALSE, inFlight |-> 0, pending |-> {},
         sent |-> 0, sentAt |-> 0, error |-> "",
         isUploading |-> FALSE, uploadStage |-> "idle", uploadProgress |-> 0,
         currentUploadFile |-> 0, uploadPc |-> "idle", file |-> 0, timers |-> 0]

\* One GET /api/video/:fileId request: the handler's position, the index of
\* the URL format being tried, the content type of the axios response held in
\* `response` (NoResponse: null), isHtmlContent, lastError and the scraped
\* downloadUrl (set or not), and what was sent to the client.
NoResponse == "null"

NoDrive == [pc |-> "idle", range |-> FALSE, i |-> 0, response |-> NoResponse,
            isHtmlContent |-> FALSE, lastError |-> FALSE, downloadUrl |-> FALSE,
            status |-> 0, contentType |-> "", piped |-> FALSE,
            error |-> "", details |-> ""]

\* ------------------------------------------------------------ session store
NotFound == [sessionId |-> 0, buffer |-> NoBytes, mimetype |-> "", size |-> 0]

StoreGetAnyEntry(store, videoId) ==
    IF DOMAIN store # {} THEN store[CHOOSE k \in DOMAIN store : TRUE] ELSE NotFound

StoreGetLatest(store, videoId) ==
    IF videoId \in DOMAIN store
    THEN store[CHOOSE k \in DOMAIN store : \A j \in DOMAIN store : j <= k]
    ELSE NotFound

\* sessionVideos.get(videoId)
StoreGet(store, videoId) ==
    IF videoId \in DOMAIN store THEN store[videoId] ELSE NotFound

StoreSetPartial(store, videoId, rec) ==
    [k \in (DOMAIN store) \cup {videoId} |->
        IF k = videoId THEN [rec EXCEPT !.buffer = NoBytes] ELSE store[k]]

StoreSetTouchOthers(store, videoId, rec) ==
    [k \in (DOMAIN store) \cup {videoId} |->
        IF k = videoId THEN rec ELSE [store[k] EXCEPT !.size = 0]]

\* sessionVideos.set(videoId, {...})
StoreSet(store, videoId, rec) ==
    [k \in (DOMAIN store) \cup {videoId} |-> IF k = videoId THEN rec ELSE store[k]]

\* sessionVideos.delete(key)
StoreDelete(store, key) ==
    [k \in (DOMAIN store) \ {key} |-> store[k]]

EvictOthersKeepAll(store, sessionId, videoId) == store

EvictAllOthers(store, sessionId, videoId) ==
    [k \in {j \in DOMAIN store : j = videoId} |-> store[k]]

\* for (const [key, video] of sessionVideos.entries())
\*   if (video.sessionId === sessionId && key !== videoId) sessionVideos.delete(key)
EvictOthers(store, sessionId, videoId) ==
    [k \in {j \in DOMAIN store : ~(store[j].sessionId = sessionId /\ j # videoId)}
        |-> store[k]]

\* The cleanup-session loop over the entries in insertion order (ids are handed
\* out in increasing order); yields the store and cleanedCount after the loop.
RECURSIVE CleanupLoop(_, _, _, _)
CleanupLoop(store, sessionId, key, cleanedCount) ==
    IF key > MaxUploads + 1
    THEN [store |-> store, cleanedCount |-> cleanedCount]
    ELSE IF key \in DOMAIN store /\ store[key].sessionId = sessionId
         THEN CleanupLoop(StoreDelete(store, key), sessionId, key + 1, cleanedCount + 1)
         ELSE CleanupLoop(store, sessionId, key + 1, cleanedCount)

CleanupSessionCountOnly(store, sessionId) ==
    [store |-> store,
     cleanedCount |-> Cardinality({k \in DOMAIN store : store[k].sessionId = sessionId})]

CleanupSessionLoop(store, sessionId) == CleanupLoop(store, sessionId, 1, 0)

\* The reply to the latest store request.  prevCleaned is what the client saw
\* just before it: the cleanedCount of the directly preceding reply when that
\* was a cleanup of the same session, and -1 otherwise.
NoReply == [op |-> "", status |-> 0, error |-> "", videoId |-> 0, sessionId |-> 0,
            cleanedCount |-> 0, prevCleaned |-> 0 - 1,
            contentType |-> "", contentLength |-> 0 - 1, contentRange |-> <<>>,
            body |-> NoBytes]

\* multer file descriptions: absent, or a file with its declared type and
\* whether it exceeds limits.fileSize
NoFile == [present |-> FALSE, mimetype |-> "", tooLarge |-> FALSE]
Files == {NoFile} \cup
         [present : {TRUE}, mimetype : {"video/mp4", "text/plain"}, tooLarge : BOOLEAN]

IsVideoTypeAny(mimetype) == TRUE

\* fileFilter: file.mimetype.startsWith('video/')
IsVideoType(mimetype) == mimetype = "video/mp4"

\* Session ids a client can name: its own, or one the server generated for an
\* earlier upload.
KnownSessions == (1..MaxSessions) \cup {GeneratedSessionId(n) : n \in 1..(nextVideoId - 1)}

\* X-Session-Id values; 0 is "no header".
HeaderValues == {0} \cup KnownSessions

UploadReject(error) ==
    /\ lastReply' = [NoReply EXCEPT !.op = "upload", !.status = 400, !.error = error]
    /\ UNCHANGED <<sessionVideos, nextVideoId, uploadedBy, reqs, tmp, proc, ui, drive>>

\* POST /api/upload: multer (fileFilter, limits), then the handler.
Upload(hdr, file) ==
    IF file.present /\ ~IsVideoType(file.mimetype)
    THEN UploadReject("Only video files are allowed")
    ELSE IF file.present /\ file.tooLarge
    THEN UploadReject("File too large. Maximum size is 2GB.")
    ELSE IF ~file.present
    THEN UploadReject("No video file provided")
    ELSE /\ nextVideoId <= MaxUploads
         /\ LET videoId == nextVideoId
                sessionId == IF hdr # 0 THEN hdr ELSE GeneratedSessionId(videoId)
                rec == [sessionId |-> sessionId, buffer |-> FileBytes(videoId),
                        mimetype |-> file.mimetype, size |-> Len(FileBytes(videoId))]
            IN  /\ sessionVideos' =
                      EvictOthers(StoreSet(sessionVideos, videoId, rec), sessionId, videoId)
                /\ uploadedBy' = [k \in (DOMAIN uploadedBy) \cup {videoId} |->
                                    IF k = videoId THEN sessionId ELSE uploadedBy[k]]
                /\ lastReply' = [NoReply EXCEPT !.op = "upload", !.status = 200,
                                   !.videoId = videoId, !.sessionId = sessionId]
         /\ nextVideoId' = nextVideoId + 1
         /\ UNCHANGED <<reqs, tmp, proc, ui, drive>>

\* DELETE /api/cleanup-session/:sessionId
CleanupSession(sessionId) ==
    LET out == CleanupSessionLoop(sessionVideos, sessionId)
    IN  /\ sessionVideos' = out.store
        /\ lastReply' = [NoReply EXCEPT !.op = "cleanup", !.status = 200,
                           !.sessionId = sessionId, !.cleanedCount = out.cleanedCount,
                           !.prevCleaned =
                               IF lastReply.op = "cleanup" /\ lastReply.sessionId = sessionId
                               THEN lastReply.cleanedCount ELSE 0 - 1]
        /\ UNCHANGED <<nextVideoId, uploadedBy, reqs, tmp, proc, ui, drive>>

\* ------------------------------------------------------ /api/uploaded-video
\* The Range request header: absent, 'bytes=<start>-<end>' or 'bytes=<start>-'.
NoRange == [present |-> FALSE, start |-> 0, hasEnd |-> FALSE, end |-> 0]
Ranges == {NoRange}
          \cup [present : {TRUE}, start : 0..MaxRangeIndex, hasEnd : {TRUE},
                 end : 0..MaxRangeIndex]
          \cup [present : {TRUE}, start : 0..MaxRangeIndex, hasEnd : {FALSE}, end : {0}]

BufferSliceFromOne(buffer, start, end) ==
    SubSeq(buffer, IF start = 0 THEN 1 ELSE start,
           IF end > Len(buffer) THEN Len(buffer) ELSE end)

\* buffer.slice(start, end): the bytes at the zero-based positions
\* start .. end - 1, end clamped to the length
BufferSlice(buffer, start, end) ==
    SubSeq(buffer, start + 1, IF end > Len(buffer) THEN Len(buffer) ELSE end)

\* GET /api/uploaded-video/:videoId
StreamUploaded(videoId, range) ==
    /\ LET video == StoreGet(sessionVideos, videoId)
           start == range.start
           end == IF range.hasEnd THEN range.end ELSE video.size - 1
       IN  lastReply' =
              IF video = NotFound
              THEN [NoReply EXCEPT !.op = "stream", !.status = 404,
                                   !.error = "Video not found", !.videoId = videoId]
              ELSE IF range.present
              THEN [NoReply EXCEPT !.op = "stream", !.status = 206, !.videoId = videoId,
                                   !.contentType = video.mimetype,
                                   !.contentRange = <<start, end, video.size>>,
                                   !.contentLength = end - start + 1,
                                   !.body = BufferSlice(video.buffer, start, end + 1)]
              ELSE [NoReply EXCEPT !.op = "stream", !.status = 200, !.videoId = videoId,
                                   !.contentType = video.mimetype,
                                   !.contentLength = video.size,
                                   !.body = video.buffer]
    /\ UNCHANGED <<sessionVideos, nextVideoId, uploadedBy, reqs, tmp, proc, ui, drive>>

\* ---------------------------------------------------------------- /api/snip
NoError == [message |-> "", response |-> 0, code |-> ""]
NotInSessionError == [NoError EXCEPT !.message = "Uploaded video not found in session"]
HttpError(status) == [NoError EXCEPT !.message = "Request failed", !.response = status]
CodeError(code) == [NoError EXCEPT !.message = "failed", !.code = code]

\* `clip_${Math.floor(timestamp)}s.mp4`: the template's three parts
NoFilename == [prefix |-> "", seconds |-> 0, suffix |-> ""]

\* An ffmpeg time option ('-ss <value>', '-t <value>') in timestamp units
NoSeek == [flag |-> "", value |-> 0]

\* One request context: the handler's position, the destructured body, the
\* thrown error, the response (status 0: headers not sent), the ffmpeg
\* command, and what the request has done so far.
IdleReq == [pc |-> "idle",
            video_url |-> "", video_id |-> 0, hasTs |-> FALSE, timestamp |-> 0,
            video |-> NoBytes, err |-> NoError,
            status |-> 0, error |-> "", detail |-> 0, bytes |-> 0,
            ended |-> FALSE, closed |-> FALSE,
            engine |-> "none", stdoutEnded |-> FALSE,
            closeHandler |-> "idle", removals |-> 0,
            created |-> FALSE, storeRead |-> FALSE, fetchIssued |-> FALSE,
            remote |-> "", disconnectAt |-> "",
            contentType |-> "", filename |-> NoFilename, noCache |-> FALSE,
            inputOptions |-> NoSeek, outputOptions |-> NoSeek,
            cleanupErrors |-> 0]

\* Request bodies: video_url absent or a URL, video_id absent or any id the
\* server may ever issue, timestamp absent or a number.
TimestampValues == {0, MinTimestamp * TsUnit - 1, MinTimestamp * TsUnit,
                    132 * TsUnit + 4}
Bodies == [video_url : {"", "u"}, video_id : {0} \cup VideoIds,
           hasTs : {TRUE}, timestamp : TimestampValues]
          \cup [video_url : {"", "u"}, video_id : {0} \cup VideoIds,
                hasTs : {FALSE}, timestamp : {0}]

\* JavaScript !x for the three body fields
NoUrl(b) == b.video_url = ""
NoId(b) == b.video_id = 0
NoTimestamp(b) == ~b.hasTs \/ b.timestamp = 0

ValidateSnipTimestampOptional(b) ==
    IF NoUrl(b) /\ NoId(b) THEN "missing"
    ELSE IF b.hasTs /\ b.timestamp < MinTimestamp * TsUnit THEN "tooSmall"
    ELSE "ok"

ValidateSnipNoLowerBound(b) ==
    IF (NoUrl(b) /\ NoId(b)) \/ NoTimestamp(b) THEN "missing" ELSE "ok"

\* The limit of the disabled check: // if (timestamp > 3600) { ... 400 ... }
OldCap == 3600

ValidateSnipCapped(b) ==
    IF (NoUrl(b) /\ NoId(b)) \/ NoTimestamp(b) THEN "missing"
    ELSE IF b.timestamp < MinTimestamp * TsUnit THEN "tooSmall"
    ELSE IF b.timestamp > OldCap * TsUnit THEN "missing"
    ELSE "ok"

ValidateSnipTimestampFirst(b) ==
    IF b.hasTs /\ b.timestamp # 0 /\ b.timestamp < MinTimestamp * TsUnit THEN "tooSmall"
    ELSE IF (NoUrl(b) /\ NoId(b)) \/ NoTimestamp(b) THEN "missing"
    ELSE "ok"

\* if ((!video_url && !video_id) || !timestamp) ...; if (timestamp < 60) ...
ValidateSnip(b) ==
    IF (NoUrl(b) /\ NoId(b)) \/ NoTimestamp(b) THEN "missing"
    ELSE IF b.timestamp < MinTimestamp * TsUnit THEN "tooSmall"
    ELSE "ok"

\* res.status(s).json({error}): json() sets Content-Type and ends the response
Respond(q, status, error, detail) ==
    [q EXCEPT !.status = status, !.error = error, !.detail = detail, !.ended = TRUE,
              !.contentType = "application/json"]

\* The catch block's error-to-response mapping.
CatchResponse(err) ==
    IF err.message = "Uploaded video not found in session"
    THEN [status |-> 400, error |-> "Video not found in session. Please upload a video first.",
          detail |-> 0]
    ELSE IF err.response # 0
    THEN [status |-> 500, error |-> "Failed to download video", detail |-> err.response]
    ELSE IF err.code = "ENOTFOUND"
    THEN [status |-> 400, error |-> "Invalid video URL", detail |-> 0]
    ELSE IF err.code = "ECONNABORTED"
    THEN [status |-> 408, error |-> "Request timeout - video too large or slow to download",
          detail |-> 0]
    ELSE [status |-> 500, error |-> "Internal server error", detail |-> 0]

\* tempDir of request r: /tmp/video-labeling-<uuidv4()>, one fresh name each
TempDir(r) == r

\* fs.ensureDir(tempDir)
EnsureDirIn(t, d) ==
    [k \in (DOMAIN t) \cup {d} |-> IF k \in DOMAIN t THEN t[k] ELSE NoBytes]

\* fs.writeFile(inputPath, bytes) / the finished write stream
WriteInput(t, d, bytes) ==
    IF d \in DOMAIN t THEN [t EXCEPT ![d] = bytes] ELSE t

RemoveNothing(t, d) == t

RemoveEverything(t, d) == [k \in {} |-> NoBytes]

\* fs.remove(tempDir)
Remove(t, d) == [k \in (DOMAIN t) \ {d} |-> t[k]]

Throw(q, err) == [q EXCEPT !.pc = "catch", !.err = err]

\* Request slots are taken in order.
SlotFree(r) ==
    reqs[r].pc = "idle" /\ (IF r = 1 THEN TRUE ELSE reqs[r - 1].pc # "idle")

\* The synchronous start of the handler: destructuring and validation.
SnipReceive(r, b) ==
    /\ SlotFree(r)
    /\ LET q == [reqs[r] EXCEPT !.video_url = b.video_url, !.video_id = b.video_id,
                                 !.hasTs = b.hasTs, !.timestamp = b.timestamp]
           v == ValidateSnip(b)
       IN  reqs' = [reqs EXCEPT ![r] =
              IF v = "missing"
              THEN [Respond(q, 400,
                      "Missing required parameters: either video_url or video_id, and timestamp",
                      0) EXCEPT !.pc = "done"]
              ELSE IF v = "tooSmall"
              THEN [Respond(q, 400, "Timestamp must be at least 60 seconds", 0)
                      EXCEPT !.pc = "done"]
              ELSE [q EXCEPT !.pc = "ensureDir"]]
    /\ UNCHANGED <<sessionVideos, nextVideoId, uploadedBy, lastReply, tmp, proc, drive>>

\* A request of any client but the page.
SnipRequest(r, b) == SnipReceive(r, b) /\ UNCHANGED ui

\* await fs.ensureDir(tempDir) completes; then the source branch up to its
\* first await: the store lookup (video_id first), or the axios call.
EnsureDir(r) ==
    /\ reqs[r].pc = "ensureDir"
    /\ tmp' = EnsureDirIn(tmp, TempDir(r))
    /\ LET q == [reqs[r] EXCEPT !.created = TRUE]
       IN  reqs' = [reqs EXCEPT ![r] =
              IF q.video_id # 0
              THEN LET video == StoreGet(sessionVideos, q.video_id)
                       q1 == [q EXCEPT !.storeRead = TRUE]
                   IN  IF video = NotFound
                       THEN Throw(q1, NotInSessionError)
                       ELSE [q1 EXCEPT !.pc = "writeFile", !.video = video.buffer]
              ELSE [q EXCEPT !.pc = "axios", !.fetchIssued = TRUE]]
    /\ UNCHANGED <<sessionVideos, nextVideoId, uploadedBy, lastReply, proc, ui, drive>>

FloorSecondsUp(t) == (t + TsUnit - 1) \div TsUnit

\* Math.floor(timestamp)
FloorSeconds(t) == t \div TsUnit

StartTimeFromZero(timestamp) == 0

\* const startTime = timestamp - 60
StartTime(timestamp) == timestamp - ClipDuration * TsUnit

\* Lines 649-708, all synchronous: response headers set (not sent), the
\* ffmpeg command built and piped to res, the 'close' listener registered.
StartStreaming(q) ==
    [q EXCEPT !.pc = "streaming", !.engine = "running",
              !.contentType = "video/mp4",
              !.filename = [prefix |-> "clip_", seconds |-> FloorSeconds(q.timestamp),
                            suffix |-> "s.mp4"],
              !.noCache = TRUE,
              !.inputOptions = [flag |-> "-ss", value |-> StartTime(q.timestamp)],
              !.outputOptions = [flag |-> "-t", value |-> ClipDuration * TsUnit]]

\* await fs.writeFile(inputPath, video.buffer) settles.
WriteFile(r, ok) ==
    /\ reqs[r].pc = "writeFile"
    /\ IF ok
       THEN /\ tmp' = WriteInput(tmp, TempDir(r), reqs[r].video)
            /\ reqs' = [reqs EXCEPT ![r] = StartStreaming(reqs[r])]
       ELSE /\ tmp' = tmp
            /\ reqs' = [reqs EXCEPT ![r] = Throw(reqs[r], CodeError("ENOSPC"))]
    /\ UNCHANGED <<sessionVideos, nextVideoId, uploadedBy, lastReply, proc, ui, drive>>

\* What the remote end of axios({url: video_url, responseType: 'stream',
\* timeout, maxContentLength}) can do before the response headers arrive.
AxiosOutcomes == {"ok", "http4xx", "http5xx", "dns", "refused", "timeout"}

AxiosError(outcome) ==
    IF outcome = "http4xx" THEN HttpError(404)
    ELSE IF outcome = "http5xx" THEN HttpError(503)
    ELSE IF outcome = "dns" THEN CodeError("ENOTFOUND")
    ELSE IF outcome = "timeout" THEN CodeError("ECONNABORTED")
    ELSE CodeError("ECONNREFUSED")

\* await axios(...) settles.
AxiosReply(r, outcome) ==
    /\ reqs[r].pc = "axios"
    /\ LET q == [reqs[r] EXCEPT !.remote = outcome]
       IN  reqs' = [reqs EXCEPT ![r] =
              IF outcome = "ok" THEN [q EXCEPT !.pc = "download"]
              ELSE Throw(q, AxiosError(outcome))]
    /\ UNCHANGED <<sessionVideos, nextVideoId, uploadedBy, lastReply, tmp, proc, ui, drive>>

\* What can end the piped transfer: the writer finishes, the writer fails,
\* the remote stream fails, or the body grows past maxContentLength.  With
\* responseType 'stream' axios hands the stream over without counting bytes,
\* so an oversized body either keeps flowing to the writer ("finish") or is
\* cut by the transport with an error that carries no response and a code
\* other than ECONNABORTED.
DownloadOutcomes == {"finish", "writeError", "streamError", "tooLargeKept", "tooLargeCut"}

\* await new Promise(...) on writer 'finish' / 'error' settles.
Download(r, outcome) ==
    /\ reqs[r].pc = "download"
    /\ LET q == IF outcome \in {"tooLargeKept", "tooLargeCut"}
                THEN [reqs[r] EXCEPT !.remote = "tooLarge"] ELSE reqs[r]
       IN  IF outcome \in {"finish", "tooLargeKept"}
           THEN /\ tmp' = WriteInput(tmp, TempDir(r), RemoteBytes)
                /\ reqs' = [reqs EXCEPT ![r] = StartStreaming(q)]
           ELSE /\ tmp' = tmp
                /\ reqs' = [reqs EXCEPT ![r] = Throw(q,
                      IF outcome = "writeError" THEN CodeError("ENOSPC")
                      ELSE IF outcome = "streamError" THEN CodeError("ECONNRESET")
                      ELSE CodeError("ERR_BAD_RESPONSE"))]
    /\ UNCHANGED <<sessionVideos, nextVideoId, uploadedBy, lastReply, proc, ui, drive>>

\* The catch block: try { await fs.remove(tempDir) } catch (cleanupError)
\* { console.error(...) }, then the error response.  removed says whether
\* fs.remove succeeded; a failure is logged and counted in cleanupErrors.
CatchBlock(r, removed) ==
    /\ reqs[r].pc = "catch"
    /\ tmp' = IF removed THEN Remove(tmp, TempDir(r)) ELSE tmp
    /\ LET q == [reqs[r] EXCEPT !.pc = "done", !.removals = @ + 1,
                                 !.cleanupErrors = IF removed THEN @ ELSE @ + 1]
           out == CatchResponse(q.err)
       IN  reqs' = [reqs EXCEPT ![r] =
              IF q.status = 0 THEN Respond(q, out.status, out.error, out.detail) ELSE q]
    /\ UNCHANGED <<sessionVideos, nextVideoId, uploadedBy, lastReply, proc, ui, drive>>

CatchCleanup(r) == CatchBlock(r, TRUE)

\* fs.remove(tempDir) rejects inside the catch block.
CatchCleanupFails(r) == CatchBlock(r, FALSE)

\* ------------------------------------------------- streaming and teardown
\* The response emits 'close' once.  The listener of line 701 exists from the
\* moment the handler reaches the streaming phase; a 'close' emitted earlier
\* finds no listener.
EmitCloseUnheard(q, at) == [q EXCEPT !.closed = TRUE, !.disconnectAt = at]

EmitClose(q, at) ==
    [q EXCEPT !.closed = TRUE,
              !.disconnectAt = at,
              !.closeHandler = IF q.pc = "streaming" THEN "pending" ELSE @]

\* The client drops the connection while the request is being served.
ClientDisconnect(r) ==
    /\ reqs[r].pc \in {"ensureDir", "writeFile", "axios", "download", "catch", "streaming"}
    /\ ~reqs[r].closed
    /\ ~reqs[r].ended
    /\ reqs' = [reqs EXCEPT ![r] =
          EmitClose(reqs[r], IF reqs[r].pc = "streaming" THEN "streaming" ELSE "acquisition")]
    /\ UNCHANGED <<sessionVideos, nextVideoId, uploadedBy, lastReply, tmp, proc, ui, drive>>

\* ffmpeg's stdout delivers a chunk and the pipe writes it to res: the first
\* write sends the headers with status 200.
EngineData(r) ==
    /\ reqs[r].pc = "streaming"
    /\ ~reqs[r].stdoutEnded
    /\ ~reqs[r].ended
    /\ ~reqs[r].closed
    /\ reqs[r].bytes < MaxChunks
    /\ reqs' = [reqs EXCEPT ![r].bytes = @ + 1,
                            ![r].status = IF @ = 0 THEN 200 ELSE @]
    /\ UNCHANGED <<sessionVideos, nextVideoId, uploadedBy, lastReply, tmp, proc, ui, drive>>

\* ffmpeg's stdout ends and the pipe ({end: true}) calls res.end().
StdoutEnd(r) ==
    /\ reqs[r].pc = "streaming"
    /\ ~reqs[r].stdoutEnded
    /\ reqs' = [reqs EXCEPT ![r] =
          IF reqs[r].ended \/ reqs[r].closed
          THEN [reqs[r] EXCEPT !.stdoutEnded = TRUE]
          ELSE [reqs[r] EXCEPT !.stdoutEnded = TRUE, !.ended = TRUE,
                               !.status = IF @ = 0 THEN 200 ELSE @]]
    /\ UNCHANGED <<sessionVideos, nextVideoId, uploadedBy, lastReply, tmp, proc, ui, drive>>

OnEngineErrorUnguarded(q) == Respond(q, 500, "Video processing failed", 0)

\* .on('error'): if (!res.headersSent) res.status(500).json(...)
OnEngineError(q) ==
    IF q.status = 0 THEN Respond(q, 500, "Video processing failed", 0) ELSE q

\* The ffmpeg command terminates: 'end' (logged only) or 'error'.
EngineExit(r, ok) ==
    /\ reqs[r].pc = "streaming"
    /\ reqs[r].engine = "running"
    /\ reqs' = [reqs EXCEPT ![r] =
          IF ok THEN [reqs[r] EXCEPT !.engine = "ended"]
          ELSE OnEngineError([reqs[r] EXCEPT !.engine =
                 IF reqs[r].bytes = 0 THEN "failedEarly" ELSE "failedLate"])]
    /\ UNCHANGED <<sessionVideos, nextVideoId, uploadedBy, lastReply, tmp, proc, ui, drive>>

\* The finished response is flushed and res emits 'close'.
ResClose(r) ==
    /\ reqs[r].pc = "streaming"
    /\ reqs[r].ended
    /\ ~reqs[r].closed
    /\ reqs' = [reqs EXCEPT ![r] = EmitClose(reqs[r], reqs[r].disconnectAt)]
    /\ UNCHANGED <<sessionVideos, nextVideoId, uploadedBy, lastReply, tmp, proc, ui, drive>>

\* res.on('close', async () => { try { await fs.remove(tempDir) }
\* catch (cleanupError) { console.error(...) } })
CloseListener(r, removed) ==
    /\ reqs[r].closeHandler = "pending"
    /\ tmp' = IF removed THEN Remove(tmp, TempDir(r)) ELSE tmp
    /\ reqs' = [reqs EXCEPT ![r].closeHandler = "done", ![r].removals = @ + 1,
                            ![r].cleanupErrors = IF removed THEN @ ELSE @ + 1]
    /\ UNCHANGED <<sessionVideos, nextVideoId, uploadedBy, lastReply, proc, ui, drive>>

CloseCleanup(r) == CloseListener(r, TRUE)

\* fs.remove(tempDir) rejects inside the 'close' listener.
CloseCleanupFails(r) == CloseListener(r, FALSE)

\* ---------------------------------------------------------------- shutdown
\* Entries of /tmp that are not workspaces of this process's requests: a
\* video-labeling-<uuid> directory a previous process left behind, and an
\* entry that does not carry the prefix.
LeftoverDir == 0
ForeignEntry == 0 - 1

\* file.startsWith('video-labeling-')
StartsWithPrefix(name) == name >= 0

\* SIGINT or SIGTERM arrives (both handlers are the same): cleanup() starts
\* and awaits fs.readdir('/tmp').
Signal ==
    /\ proc.phase = "serving"
    /\ proc' = [proc EXCEPT !.phase = "readdir"]
    /\ UNCHANGED <<sessionVideos, nextVideoId, uploadedBy, lastReply, reqs, tmp, ui, drive>>

\* fs.readdir('/tmp') resolves with the names present at that moment; the
\* loop acts on those that carry the prefix.
ReaddirDone ==
    /\ proc.phase = "readdir"
    /\ proc' = [phase |-> "sweeping",
                snapshot |-> {name \in DOMAIN tmp : StartsWithPrefix(name)}]
    /\ UNCHANGED <<sessionVideos, nextVideoId, uploadedBy, lastReply, reqs, tmp, ui, drive>>

\* One iteration of the loop: await fs.remove(path.join('/tmp', file)).
SweepRemove(name) ==
    /\ proc.phase = "sweeping"
    /\ name \in proc.snapshot
    /\ tmp' = Remove(tmp, name)
    /\ proc' = [proc EXCEPT !.snapshot = @ \ {name}]
    /\ UNCHANGED <<sessionVideos, nextVideoId, uploadedBy, lastReply, reqs, ui, drive>>

\* The loop is over: sessionVideos.clear(), cleanup() returns and the
\* signal handler calls process.exit(0).
SweepExit ==
    /\ proc.phase = "sweeping"
    /\ proc.snapshot = {}
    /\ sessionVideos' = <<>>
    /\ proc' = [proc EXCEPT !.phase = "exited"]
    /\ UNCHANGED <<nextVideoId, uploadedBy, lastReply, reqs, tmp, ui, drive>>

\* ------------------------------------------------------------ specification
Init ==
    /\ sessionVideos = <<>>
    /\ nextVideoId = 1
    /\ uploadedBy = <<>>
    /\ lastReply = NoReply
    /\ reqs = [r \in Reqs |-> IdleReq]
    /\ tmp = <<>>
    /\ proc = Serving
    /\ ui = NoUi
    /\ drive = NoDrive

Next ==
    \/ \E hdr \in HeaderValues, file \in Files : Upload(hdr, file)
    \/ \E sessionId \in KnownSessions : CleanupSession(sessionId)
    \/ \E r \in Reqs, b \in Bodies : SnipRequest(r, b)
    \/ \E r \in Reqs : EnsureDir(r)
    \/ \E r \in Reqs, ok \in BOOLEAN : WriteFile(r, ok)
    \/ \E r \in Reqs, outcome \in AxiosOutcomes : AxiosReply(r, outcome)
    \/ \E r \in Reqs, outcome \in DownloadOutcomes : Download(r, outcome)
    \/ \E r \in Reqs : CatchCleanup(r)
    \/ \E r \in Reqs : ClientDisconnect(r)
    \/ \E r \in Reqs : EngineData(r)
    \/ \E r \in Reqs : StdoutEnd(r)
    \/ \E r \in Reqs, ok \in BOOLEAN : EngineExit(r, ok)
    \/ \E r \in Reqs : ResClose(r)
    \/ \E r \in Reqs : CloseCleanup(r)

Spec == Init /\ [][Next]_vars

\* Node's event loop runs every pending continuation and callback, and the
\* ffmpeg child process and its stdout terminate.  Nothing obliges a client
\* to send a request or to disconnect.
Fairness ==
    \A r \in Reqs :
        /\ WF_vars(EnsureDir(r))
        /\ WF_vars(\E ok \in BOOLEAN : WriteFile(r, ok))
        /\ WF_vars(\E outcome \in AxiosOutcomes : AxiosReply(r, outcome))
        /\ WF_vars(\E outcome \in DownloadOutcomes : Download(r, outcome))
        /\ WF_vars(CatchCleanup(r))
        /\ WF_vars(StdoutEnd(r))
        /\ WF_vars(\E ok \in BOOLEAN : EngineExit(r, ok))
        /\ WF_vars(ResClose(r))
        /\ WF_vars(CloseCleanup(r))

FairSpec == Spec /\ Fairness

\* The same server on a file system whose fs.remove can fail (EBUSY, EACCES,
\* EIO): both removal sites may reject.
FaultNext ==
    \/ Next
    \/ \E r \in Reqs : CatchCleanupFails(r)
    \/ \E r \in Reqs : CloseCleanupFails(r)

FaultSpec == Init /\ [][FaultNext]_vars

\* The life of one server process, from app.listen to process.exit: /tmp
\* holds a directory left by a previous process and a foreign entry; clients
\* upload, stream, clean up and request clips (one source of each kind, at
\* the smallest valid timestamp) until a signal ends the process.
LifeBodies ==
    {[video_url |-> "", video_id |-> 1, hasTs |-> TRUE, timestamp |-> MinTimestamp * TsUnit],
     [video_url |-> "u", video_id |-> 0, hasTs |-> TRUE, timestamp |-> MinTimestamp * TsUnit]}

LifeFiles == {[present |-> TRUE, mimetype |-> "video/mp4", tooLarge |-> FALSE]}

LifeInit ==
    /\ sessionVideos = <<>>
    /\ nextVideoId = 1
    /\ uploadedBy = <<>>
    /\ lastReply = NoReply
    /\ reqs = [r \in Reqs |-> IdleReq]
    /\ tmp = [name \in {LeftoverDir, ForeignEntry} |-> NoBytes]
    /\ proc = Serving
    /\ ui = NoUi
    /\ drive = NoDrive

\* No handler runs in a process that has exited.
Alive == proc.phase # "exited"

LifeNext ==
    \/ \E hdr \in HeaderValues, file \in LifeFiles : Alive /\ Upload(hdr, file)
    \/ \E sessionId \in KnownSessions : Alive /\ CleanupSession(sessionId)
    \/ \E videoId \in VideoIds : Alive /\ StreamUploaded(videoId, NoRange)
    \/ \E r \in Reqs, b \in LifeBodies : Alive /\ SnipRequest(r, b)
    \/ \E r \in Reqs : Alive /\ EnsureDir(r)
    \/ \E r \in Reqs, ok \in BOOLEAN : Alive /\ WriteFile(r, ok)
    \/ \E r \in Reqs, outcome \in AxiosOutcomes : Alive /\ AxiosReply(r, outcome)
    \/ \E r \in Reqs, outcome \in DownloadOutcomes : Alive /\ Download(r, outcome)
    \/ \E r \in Reqs : Alive /\ CatchCleanup(r)
    \/ \E r \in Reqs : Alive /\ ClientDisconnect(r)
    \/ \E r \in Reqs : Alive /\ EngineData(r)
    \/ \E r \in Reqs : Alive /\ StdoutEnd(r)
    \/ \E r \in Reqs, ok \in BOOLEAN : Alive /\ EngineExit(r, ok)
    \/ \E r \in Reqs : Alive /\ ResClose(r)
    \/ \E r \in Reqs : Alive /\ CloseCleanup(r)
    \/ Signal
    \/ ReaddirDone
    \/ \E name \in proc.snapshot : SweepRemove(name)
    \/ SweepExit

LifeSpec == LifeInit /\ [][LifeNext]_vars

\* Two clip requests in flight at once, one more than Spec serves, against a
\* store that clients without a session header upload to.
ConcReqs == 1..(MaxReqs + 1)

ConcInit ==
    /\ sessionVideos = <<>>
    /\ nextVideoId = 1
    /\ uploadedBy = <<>>
    /\ lastReply = NoReply
    /\ reqs = [r \in ConcReqs |-> IdleReq]
    /\ tmp = <<>>
    /\ proc = Serving
    /\ ui = NoUi
    /\ drive = NoDrive

ConcNext ==
    \/ \E file \in LifeFiles : Upload(0, file)
    \/ \E r \in ConcReqs, b \in LifeBodies : SnipRequest(r, b)
    \/ \E r \in ConcReqs : EnsureDir(r)
    \/ \E r \in ConcReqs, ok \in BOOLEAN : WriteFile(r, ok)
    \/ \E r \in ConcReqs, outcome \in AxiosOutcomes : AxiosReply(r, outcome)
    \/ \E r \in ConcReqs, outcome \in DownloadOutcomes : Download(r, outcome)
    \/ \E r \in ConcReqs : CatchCleanup(r)
    \/ \E r \in ConcReqs : ClientDisconnect(r)
    \/ \E r \in ConcReqs : EngineData(r)
    \/ \E r \in ConcReqs : StdoutEnd(r)
    \/ \E r \in ConcReqs, ok \in BOOLEAN : EngineExit(r, ok)
    \/ \E r \in ConcReqs : ResClose(r)
    \/ \E r \in ConcReqs : CloseCleanup(r)

ConcSpec == ConcInit /\ [][ConcNext]_vars

\* ------------------------------------------------------------ browser page
\* The names of the files a user picks.  A name is any string: one that no
\* upload handler ever issued as an id, or one that happens to equal an id.
FileNames == {1, MaxUploads + 1}

\* playedSeconds values the player reports.
UiTimes == {MinTimestamp * TsUnit - 1, MinTimestamp * TsUnit}

\* Reset timers that can be pending together.
MaxTimers == 1

PageOnly == <<sessionVideos, nextVideoId, uploadedBy, lastReply, reqs, tmp, proc, drive>>

\* handleFileUpload up to its first await.  The Choose Video File button is
\* disabled while isUploading.
HandleFileUpload(name) ==
    /\ ~ui.isUploading
    /\ ui.uploadPc = "idle"
    /\ ui' = [ui EXCEPT !.isUploading = TRUE, !.uploadProgress = 0,
                        !.uploadStage = "getting-url", !.error = "",
                        !.uploadedVideo = 0, !.directVideoUrl = FALSE,
                        !.currentUploadFile = name,
                        !.uploadPc = "upload-url", !.file = name]
    /\ UNCHANGED PageOnly

\* catch { setError(...) } finally { setIsUploading(false);
\* setCurrentUploadFile(null) }
UploadFailed(u) ==
    [u EXCEPT !.error = "Upload failed", !.isUploading = FALSE,
              !.currentUploadFile = 0, !.uploadPc = "idle", !.file = 0]

\* POST /api/upload-url settles.
UploadUrlSettled(ok) ==
    /\ ui.uploadPc = "upload-url"
    /\ ui' = IF ok THEN [ui EXCEPT !.uploadStage = "uploading", !.uploadProgress = 0,
                                  !.uploadPc = "put"]
             ELSE UploadFailed(ui)
    /\ UNCHANGED PageOnly

\* xhr.upload 'progress'
UploadProgress ==
    /\ ui.uploadPc = "put"
    /\ ui.uploadProgress = 0
    /\ ui' = [ui EXCEPT !.uploadProgress = 50]
    /\ UNCHANGED PageOnly

\* The PUT to the bucket settles ('load', 'error' or 'abort'): on success
\* uploadedVideo.videoId = file.name.  Nothing is sent to POST /api/upload.
PutSettled(ok) ==
    /\ ui.uploadPc = "put"
    /\ ui' = IF ok THEN [ui EXCEPT !.uploadedVideo = ui.file,
                                  !.uploadStage = "getting-download-url",
                                  !.uploadProgress = 95,
                                  !.uploadPc = "download-url"]
             ELSE UploadFailed(ui)
    /\ UNCHANGED PageOnly

\* GET /api/download-url settles; on success the 1 s reset timer is
\* scheduled; then the finally block.
DownloadUrlSettled(ok) ==
    /\ ui.uploadPc = "download-url"
    /\ ok => ui.timers < MaxTimers
    /\ ui' = IF ok THEN [ui EXCEPT !.directVideoUrl = TRUE, !.uploadProgress = 100,
                                  !.timers = @ + 1,
                                  !.isUploading = FALSE, !.currentUploadFile = 0,
                                  !.uploadPc = "idle", !.file = 0]
             ELSE UploadFailed(ui)
    /\ UNCHANGED PageOnly

\* setTimeout(() => { setUploadProgress(0); setUploadStage('idle');
\* setCurrentUploadFile(null) }, 1000) fires.
ResetTimer ==
    /\ ui.timers > 0
    /\ ui' = [ui EXCEPT !.timers = @ - 1, !.uploadProgress = 0,
                        !.uploadStage = "idle", !.currentUploadFile = 0]
    /\ UNCHANGED PageOnly

\* handleProgress: setCurrentTime(state.playedSeconds)
HandleProgress(t) ==
    /\ ui.directVideoUrl
    /\ ui.currentTime # t
    /\ ui' = [ui EXCEPT !.currentTime = t]
    /\ UNCHANGED PageOnly

CanMarkEventWhileProcessing ==
    ui.currentTime >= MinTimestamp * TsUnit /\ ui.directVideoUrl

\* canMarkEvent = currentTime >= 60 && directVideoUrl && !isProcessing
CanMarkEvent ==
    ui.currentTime >= MinTimestamp * TsUnit /\ ui.directVideoUrl /\ ~ui.isProcessing

\* handleMarkEvent up to the fetch, invoked by a click on the button, which
\* is disabled unless canMarkEvent: the two early exits, else the request
\* body {timestamp: currentTime, video_id: uploadedVideo.videoId} is sent.
HandleMarkEvent ==
    /\ CanMarkEvent
    /\ ui.inFlight < Cardinality({r \in DOMAIN reqs : reqs[r].pc = "idle"})
    /\ ui' = IF ui.currentTime < MinTimestamp * TsUnit
             THEN [ui EXCEPT !.error =
                      "Video must be at least 60 seconds in to mark an event"]
             ELSE IF ui.uploadedVideo = 0
             THEN [ui EXCEPT !.isProcessing = FALSE, !.error = "No video uploaded"]
             ELSE [ui EXCEPT !.isProcessing = TRUE, !.error = "",
                             !.inFlight = @ + 1,
                             !.sent = ui.uploadedVideo,
                             !.sentAt = ui.currentTime]
    /\ UNCHANGED PageOnly

\* JSON.stringify(requestBody) as the server parses it.
MarkEventBody ==
    [video_url |-> "", video_id |-> ui.sent, hasTs |-> TRUE, timestamp |-> ui.sentAt]

\* The page's POST /api/snip reaches the server.
FetchSnip(r) ==
    /\ Cardinality(ui.pending) < ui.inFlight
    /\ SnipReceive(r, MarkEventBody)
    /\ ui' = [ui EXCEPT !.pending = @ \cup {r}]

\* The fetch rejects before the request reaches the server.
FetchThrows ==
    /\ Cardinality(ui.pending) < ui.inFlight
    /\ ui' = [ui EXCEPT !.inFlight = @ - 1, !.isProcessing = FALSE,
                        !.error = "Failed to fetch"]
    /\ UNCHANGED PageOnly

\* The fetch settles: a complete 200 response is saved as a file, anything
\* else lands in the catch; finally setIsProcessing(false).
MarkEventSettled(r) ==
    /\ r \in ui.pending
    /\ reqs[r].ended \/ reqs[r].closed
    /\ ui' = [ui EXCEPT !.inFlight = @ - 1, !.pending = @ \ {r},
                        !.isProcessing = FALSE,
                        !.error = IF reqs[r].status = 200 /\ reqs[r].ended
                                  THEN "" ELSE "HTTP error"]
    /\ UNCHANGED PageOnly

\* The page against the server; other clients upload through POST /api/upload.
UiInit == Init

UiNext ==
    \/ \E name \in FileNames : HandleFileUpload(name)
    \/ \E ok \in BOOLEAN : UploadUrlSettled(ok)
    \/ UploadProgress
    \/ \E ok \in BOOLEAN : PutSettled(ok)
    \/ \E ok \in BOOLEAN : DownloadUrlSettled(ok)
    \/ ResetTimer
    \/ \E t \in UiTimes : HandleProgress(t)
    \/ HandleMarkEvent
    \/ \E r \in Reqs : FetchSnip(r)
    \/ FetchThrows
    \/ \E r \in Reqs : MarkEventSettled(r)
    \/ \E file \in LifeFiles : Upload(0, file)
    \/ \E r \in Reqs : EnsureDir(r)
    \/ \E r \in Reqs, ok \in BOOLEAN : WriteFile(r, ok)
    \/ \E r \in Reqs : CatchCleanup(r)
    \/ \E r \in Reqs : EngineData(r)
    \/ \E r \in Reqs : StdoutEnd(r)
    \/ \E r \in Reqs, ok \in BOOLEAN : EngineExit(r, ok)
    \/ \E r \in Reqs : ResClose(r)
    \/ \E r \in Reqs : CloseCleanup(r)

UiSpec == UiInit /\ [][UiNext]_vars

\* ------------------------------------------------- the validator on its own
\* Timestamps around the lower bound, around the limit of the disabled check
\* and whole multiples of it.
WideTimestamps ==
    {0, 1}
    \cup {MinTimestamp * TsUnit + d - 1 : d \in 0..2}
    \cup {OldCap * TsUnit + d - 1 : d \in 0..2}
    \cup {h * OldCap * TsUnit : h \in 2..MaxHours}

WideBodies == [video_url : {"", "u"}, video_id : {0} \cup VideoIds,
               hasTs : {TRUE}, timestamp : WideTimestamps]
              \cup [video_url : {"", "u"}, video_id : {0} \cup VideoIds,
                    hasTs : {FALSE}, timestamp : {0}]

\* POST /api/snip up to the source branch, for every body.
ValidatorNext ==
    \/ \E r \in Reqs, b \in WideBodies : SnipRequest(r, b)
    \/ \E r \in Reqs : EnsureDir(r)

ValidatorSpec == Init /\ [][ValidatorNext]_vars

\* ------------------------------------------ the store's two HTTP interfaces
\* Uploads, session cleanups and GET /api/uploaded-video with every Range.
StreamNext ==
    \/ \E hdr \in HeaderValues, file \in Files : Upload(hdr, file)
    \/ \E sessionId \in KnownSessions : CleanupSession(sessionId)
    \/ \E videoId \in VideoIds, range \in Ranges : StreamUploaded(videoId, range)

StreamSpec == Init /\ [][StreamNext]_vars

\* ------------------------------------------------------ /api/video/:fileId
\* urlFormats has four entries.
UrlFormatCount == 4

\* The content-type header of an answer from Google Drive ("": no header).
HtmlType == "text/html; charset=utf-8"
DriveContentTypes == {HtmlType, "video/mp4", "application/octet-stream", ""}

\* contentType.includes('text/html')
IncludesTextHtml(contentType) == contentType = HtmlType

\* An axios call either rejects or resolves with a content type.
Failed == "failed"
DriveOutcomes == DriveContentTypes \cup {Failed}

\* What the scrape of the HTML page yields: the request failed, no pattern
\* matched, or a download URL was found.
ScrapeOutcomes == {Failed, "noUrl", "url"}

\* The request arrives, with or without a Range header.
ProxyRequest(range) ==
    /\ drive.pc = "idle"
    /\ drive' = [NoDrive EXCEPT !.pc = "head", !.i = 1, !.range = range]
    /\ UNCHANGED <<sessionVideos, nextVideoId, uploadedBy, lastReply, reqs, tmp, proc, ui>>

\* Lines 494-527: the headers are set from the held response and it is
\* piped to the client.
PipeResponse(d) ==
    [d EXCEPT !.pc = "done",
              !.status = IF d.range THEN 206 ELSE 200,
              !.contentType = IF d.response = "" THEN "video/mp4" ELSE d.response,
              !.piped = TRUE]

\* Lines 481-491 and the catch block: throw, then 500 'Failed to load video'.
FailProxy(d) ==
    [d EXCEPT !.pc = "done", !.status = 500, !.contentType = "application/json",
              !.error = "Failed to load video",
              !.details = IF d.isHtmlContent THEN "Google Drive returned HTML"
                          ELSE IF d.lastError THEN "lastError"
                          ELSE "All download methods failed"]

\* The loop is left: if (!response) the fallback is tried, else the
\* response is piped.
AfterLoop(d) ==
    IF d.response = NoResponse THEN [d EXCEPT !.pc = "fallbackHtml"]
    ELSE PipeResponse(d)

\* continue: the next URL format, or the end of the loop.
NextUrl(d) ==
    IF d.i < UrlFormatCount THEN [d EXCEPT !.pc = "head", !.i = @ + 1]
    ELSE AfterLoop(d)

\* await axios({method: 'HEAD', url: videoUrl}) settles.
ProxyHead(outcome) ==
    /\ drive.pc = "head"
    /\ drive' = IF outcome = Failed
                THEN NextUrl([drive EXCEPT !.lastError = TRUE])
                ELSE IF IncludesTextHtml(outcome)
                THEN NextUrl([drive EXCEPT !.isHtmlContent = TRUE])
                ELSE [drive EXCEPT !.pc = "get"]
    /\ UNCHANGED <<sessionVideos, nextVideoId, uploadedBy, lastReply, reqs, tmp, proc, ui>>

\* response = await axios({method: 'GET', url: videoUrl}) settles; on HTML
\* the loop continues with `response` still assigned.
ProxyGet(outcome) ==
    /\ drive.pc = "get"
    /\ drive' = IF outcome = Failed
                THEN NextUrl([drive EXCEPT !.lastError = TRUE])
                ELSE IF IncludesTextHtml(outcome)
                THEN NextUrl([drive EXCEPT !.response = outcome,
                                           !.isHtmlContent = TRUE])
                ELSE AfterLoop([drive EXCEPT !.response = outcome])
    /\ UNCHANGED <<sessionVideos, nextVideoId, uploadedBy, lastReply, reqs, tmp, proc, ui>>

\* The fallback's GET of the HTML page and the pattern scan.
ProxyFallbackHtml(outcome) ==
    /\ drive.pc = "fallbackHtml"
    /\ drive' = IF outcome = "url"
                THEN [drive EXCEPT !.pc = "fallbackDownload", !.downloadUrl = TRUE]
                ELSE [drive EXCEPT !.pc = "direct"]
    /\ UNCHANGED <<sessionVideos, nextVideoId, uploadedBy, lastReply, reqs, tmp, proc, ui>>

\* response = await axios(downloadOptions); HTML resets response to null.
ProxyFallbackDownload(outcome) ==
    /\ drive.pc = "fallbackDownload"
    /\ drive' = IF outcome = Failed \/ IncludesTextHtml(outcome)
                THEN [drive EXCEPT !.pc = "direct"]
                ELSE PipeResponse([drive EXCEPT !.response = outcome])
    /\ UNCHANGED <<sessionVideos, nextVideoId, uploadedBy, lastReply, reqs, tmp, proc, ui>>

\* The direct download with confirm=t; HTML resets response to null.
ProxyDirect(outcome) ==
    /\ drive.pc = "direct"
    /\ drive' = IF outcome = Failed \/ IncludesTextHtml(outcome)
                THEN FailProxy(drive)
                ELSE PipeResponse([drive EXCEPT !.response = outcome])
    /\ UNCHANGED <<sessionVideos, nextVideoId, uploadedBy, lastReply, reqs, tmp, proc, ui>>

DriveNext ==
    \/ \E range \in BOOLEAN : ProxyRequest(range)
    \/ \E outcome \in DriveOutcomes : ProxyHead(outcome)
    \/ \E outcome \in DriveOutcomes : ProxyGet(outcome)
    \/ \E outcome \in ScrapeOutcomes : ProxyFallbackHtml(outcome)
    \/ \E outcome \in DriveOutcomes : ProxyFallbackDownload(outcome)
    \/ \E outcome \in DriveOutcomes : ProxyDirect(outcome)

DriveSpec == Init /\ [][DriveNext]_vars

\* The page with room for a second Mark Event while the first clip request
\* is still being served.
PageNext ==
    \/ \E name \in FileNames : HandleFileUpload(name)
    \/ \E ok \in BOOLEAN : UploadUrlSettled(ok)
    \/ UploadProgress
    \/ \E ok \in BOOLEAN : PutSettled(ok)
    \/ \E ok \in BOOLEAN : DownloadUrlSettled(ok)
    \/ ResetTimer
    \/ \E t \in UiTimes : HandleProgress(t)
    \/ HandleMarkEvent
    \/ \E r \in ConcReqs : FetchSnip(r)
    \/ FetchThrows
    \/ \E r \in ConcReqs : MarkEventSettled(r)
    \/ \E file \in LifeFiles : Upload(0, file)
    \/ \E r \in ConcReqs : EnsureDir(r)
    \/ \E r \in ConcReqs : WriteFile(r, TRUE)
    \/ \E r \in ConcReqs : CatchCleanup(r)
    \/ \E r \in ConcReqs : EngineData(r)
    \/ \E r \in ConcReqs : StdoutEnd(r)
    \/ \E r \in ConcReqs, ok \in BOOLEAN : EngineExit(r, ok)
    \/ \E r \in ConcReqs : ResClose(r)
    \/ \E r \in ConcReqs : CloseCleanup(r)

PageSpec == ConcInit /\ [][PageNext]_vars

TypeOK ==
    /\ nextVideoId \in 1..(MaxUploads + 1)
    /\ DOMAIN sessionVideos \subseteq VideoIds
    /\ \A r \in Reqs : reqs[r].removals \in 0..2

\* ------------------------------------------------------------------ claims
ValidationErrors ==
    {"Missing required parameters: either video_url or video_id, and timestamp",
     "Timestamp must be at least 60 seconds"}

Received(r) == reqs[r].pc # "idle"

\* Nothing of the pipeline has happened for request r.
NoSideEffects(r) ==
    /\ ~reqs[r].created
    /\ TempDir(r) \notin DOMAIN tmp
    /\ ~reqs[r].fetchIssued
    /\ ~reqs[r].storeRead
    /\ reqs[r].engine = "none"

\* C1: every snip request whose timestamp is below 60 seconds, whatever source
\* fields it carries, is answered 400 with a validation error, and for it no
\* workspace is created, no remote fetch is issued, the session store is not
\* read and ffmpeg is never started.
C1_SmallTimestampRejected ==
    \A r \in Reqs :
        (Received(r) /\ reqs[r].hasTs /\ reqs[r].timestamp < MinTimestamp * TsUnit)
        => /\ reqs[r].pc = "done"
           /\ reqs[r].status = 400
           /\ reqs[r].error \in ValidationErrors
           /\ NoSideEffects(r)

C1_Witness ==
    \E r \in Reqs :
        /\ reqs[r].pc = "done"
        /\ reqs[r].hasTs
        /\ reqs[r].timestamp = MinTimestamp * TsUnit - 1
        /\ reqs[r].video_url # ""
        /\ reqs[r].video_id # 0
        /\ reqs[r].status = 400
        /\ reqs[r].error = "Timestamp must be at least 60 seconds"

EntriesOf(store, sessionId) == {k \in DOMAIN store : store[k].sessionId = sessionId}

\* C2: the store never holds two entries with the same sessionId; of all the
\* videoIds uploaded under one sessionId only the one uploaded last can be in
\* the store (a lookup of an earlier one reports not-found), and right after
\* a successful upload its videoId is retrievable under its sessionId.
C2_SingleSlotPerSession ==
    /\ \A v \in DOMAIN sessionVideos, w \in DOMAIN sessionVideos :
          sessionVideos[v].sessionId = sessionVideos[w].sessionId => v = w
    /\ \A v \in DOMAIN uploadedBy, w \in DOMAIN uploadedBy :
          (uploadedBy[v] = uploadedBy[w] /\ v < w)
          => StoreGet(sessionVideos, v) = NotFound
    /\ \A v \in DOMAIN sessionVideos : sessionVideos[v].sessionId = uploadedBy[v]
    /\ (lastReply.op = "upload" /\ lastReply.status = 200)
       => /\ StoreGet(sessionVideos, lastReply.videoId) # NotFound
          /\ sessionVideos[lastReply.videoId].sessionId = lastReply.sessionId
          /\ EntriesOf(sessionVideos, lastReply.sessionId) = {lastReply.videoId}

C2_Witness ==
    \E v \in DOMAIN uploadedBy, w \in DOMAIN uploadedBy :
        /\ v < w
        /\ uploadedBy[v] = uploadedBy[w]
        /\ lastReply.op = "upload"
        /\ lastReply.videoId = w
        /\ w \in DOMAIN sessionVideos
        /\ v \notin DOMAIN sessionVideos

WorkspaceAbsent(r) == TempDir(r) \notin DOMAIN tmp

FailurePath(r) ==
    \/ reqs[r].err # NoError
    \/ reqs[r].engine \in {"failedEarly", "failedLate"}

\* C4: for every request that created a workspace directory and took a
\* failure path, the directory is eventually removed.
C4_FailurePathsRemoveWorkspace ==
    \A r \in Reqs :
        (reqs[r].created /\ FailurePath(r)) ~> WorkspaceAbsent(r)

\* C5: a snip request is accepted only with exactly one source reference: a
\* request carrying both video_url and video_id, or neither, is rejected
\* with a validation error.
C5_ExactlyOneSource ==
    \A r \in Reqs :
        (Received(r) /\ (reqs[r].video_url # "") = (reqs[r].video_id # 0))
        => /\ reqs[r].pc = "done"
           /\ reqs[r].status = 400
           /\ reqs[r].error \in ValidationErrors

\* C6: releaseSession is idempotent.  Every cleanup-session call answers the
\* number of entries that carried the sessionId, removes exactly those and
\* leaves the other entries as they were; a call that directly follows a
\* cleanup of the same session answers 0 and leaves the store unchanged.
C6_ReleaseSessionIdempotent ==
    [][\A sessionId \in SessionIds :
         CleanupSession(sessionId)
         => /\ lastReply'.cleanedCount =
                  Cardinality(EntriesOf(sessionVideos, sessionId))
            /\ DOMAIN sessionVideos' =
                  (DOMAIN sessionVideos) \ EntriesOf(sessionVideos, sessionId)
            /\ \A k \in DOMAIN sessionVideos' : sessionVideos'[k] = sessionVideos[k]
            /\ (lastReply.op = "cleanup" /\ lastReply.sessionId = sessionId)
               => /\ lastReply'.cleanedCount = 0
                  /\ sessionVideos' = sessionVideos]_vars

C6_Witness ==
    /\ lastReply.op = "cleanup"
    /\ lastReply.prevCleaned = 1
    /\ lastReply.cleanedCount = 0
    /\ sessionVideos # <<>>

NotInSessionReply == "Video not found in session. Please upload a video first."

OnlyUnknownVideoId(r) ==
    /\ Received(r)
    /\ ~reqs[r].hasTs
    /\ reqs[r].video_url = ""
    /\ reqs[r].video_id # 0
    /\ reqs[r].video_id >= nextVideoId

\* C8 as stated: a request whose only field is an unknown videoId (no
\* timestamp) fails with the not-found kind.
C8_ScenarioC_NotFound ==
    \A r \in Reqs :
        OnlyUnknownVideoId(r)
        => (reqs[r].pc = "done" /\ reqs[r].error = NotInSessionReply)

\* C8 amended: a request whose only field is an unknown videoId (no
\* timestamp) is rejected by the validator with 400 'Missing required
\* parameters ...'; the store is never consulted for it.
C8_ScenarioC_MissingParameters ==
    \A r \in Reqs :
        OnlyUnknownVideoId(r)
        => /\ reqs[r].pc = "done"
           /\ reqs[r].status = 400
           /\ reqs[r].error =
                "Missing required parameters: either video_url or video_id, and timestamp"
           /\ NoSideEffects(r)

C8_Witness ==
    \E r \in Reqs :
        /\ OnlyUnknownVideoId(r)
        /\ reqs[r].pc = "done"
        /\ reqs[r].status = 400

\* The failure kind a client reads off a finished response.
ResponseKind(q) ==
    IF q.status = 200 THEN "Success"
    ELSE IF q.status = 408 THEN "TimeoutError"
    ELSE IF q.status = 404 THEN "NotFoundError"
    ELSE IF q.status = 400 /\ q.error \in ValidationErrors THEN "ValidationError"
    ELSE IF q.status = 400 THEN "NotFoundError"
    ELSE IF q.error = "Failed to download video" THEN "UpstreamError"
    ELSE IF q.error = "Video processing failed" THEN "ProcessingError"
    ELSE "InternalError"

\* C9: a remote 4xx reply yields the not-found kind, a remote 5xx reply or a
\* network failure yields the upstream-error kind, and the two never share
\* status and kind.
C9_RemoteFailureKinds ==
    \A r \in Reqs :
        reqs[r].pc = "done"
        => /\ reqs[r].remote = "http4xx"
              => /\ ResponseKind(reqs[r]) = "NotFoundError"
                 /\ reqs[r].status # CatchResponse(HttpError(503)).status
           /\ reqs[r].remote \in {"http5xx", "dns", "refused"}
              => ResponseKind(reqs[r]) = "UpstreamError"

\* C10: a remote fetch that exceeds the time bound or the byte ceiling fails
\* the request with 408 in both cases, never starts ffmpeg, and the workspace
\* is removed.
C10_TimeAndSizeBoundsTimeout ==
    \A r \in Reqs :
        reqs[r].remote \in {"timeout", "tooLarge"}
        => /\ reqs[r].engine = "none"
           /\ reqs[r].pc \in {"catch", "done"}
           /\ reqs[r].pc = "done"
              => (reqs[r].status = 408 /\ WorkspaceAbsent(r))

\* C11: when ffmpeg reports an error before any clip byte has been written
\* to the response, the response never carries a successful status: it is
\* 500 'Video processing failed'.
C11_EarlyEngineErrorIs500 ==
    \A r \in Reqs :
        reqs[r].engine = "failedEarly"
        => /\ reqs[r].status = 500
           /\ reqs[r].error = "Video processing failed"

\* The response was finished by res.end() under status 200: the client reads
\* a complete, well-terminated clip.
CompletedAsWhole(q) == q.status = 200 /\ q.ended

\* C12: when ffmpeg reports an error after clip bytes have been written, the
\* response is aborted: it is never completed as if the clip were whole, and
\* it is not left open.
C12_LateEngineErrorAborts ==
    /\ [](\A r \in Reqs :
            reqs[r].engine = "failedLate" => ~CompletedAsWhole(reqs[r]))
    /\ \A r \in Reqs : (reqs[r].engine = "failedLate") ~> reqs[r].closed

\* The bytes the request's source file must hold: the buffer read from the
\* store, or the body of the remote reply.
SourceBytes(q) == IF q.video_id # 0 THEN q.video ELSE RemoteBytes

\* C13: per request, the source file is completely written before ffmpeg
\* starts, and a removal of the workspace starts only when ffmpeg is not
\* running (it has finished, failed or been terminated, or never started),
\* also when the response closes because the client disconnected.
C13_PerRequestOrdering ==
    [][\A r \in Reqs :
         /\ (reqs[r].engine = "none" /\ reqs'[r].engine # "none")
            => /\ TempDir(r) \in DOMAIN tmp'
               /\ tmp'[TempDir(r)] = SourceBytes(reqs[r])
         /\ reqs'[r].removals > reqs[r].removals
            => reqs[r].engine # "running"]_vars

\* Request r created a workspace and nothing more will happen for it: the
\* catch block has run, or the response is closed, ffmpeg and its stdout are
\* over and no 'close' listener is waiting to run.
Finished(r) ==
    /\ reqs[r].created
    /\ \/ reqs[r].pc = "done"
       \/ /\ reqs[r].pc = "streaming"
          /\ reqs[r].closed
          /\ reqs[r].stdoutEnded
          /\ reqs[r].engine # "running"
          /\ reqs[r].closeHandler # "pending"

\* C14: fs.remove(tempDir) is called exactly once per request over all exit
\* paths (never by both the catch block and the 'close' listener, never
\* twice), and a rejected removal is logged and leaves the response and the
\* handler as they would be otherwise.
C14_RemovalExactlyOnce ==
    \A r \in Reqs :
        /\ reqs[r].removals <= 1
        /\ Finished(r) => reqs[r].removals = 1
        /\ reqs[r].cleanupErrors <= reqs[r].removals
        /\ (reqs[r].cleanupErrors > 0 /\ reqs[r].pc = "done")
           => /\ reqs[r].status = CatchResponse(reqs[r].err).status
              /\ reqs[r].error = CatchResponse(reqs[r].err).error
        /\ (reqs[r].cleanupErrors > 0 /\ reqs[r].pc = "streaming")
           => reqs[r].closeHandler = "done"

C16_ClipWindow ==
    \A r \in Reqs :
        reqs[r].engine # "none"
        => /\ reqs[r].inputOptions.flag = "-ss"
           /\ reqs[r].inputOptions.value = reqs[r].timestamp - 60 * TsUnit
           /\ reqs[r].outputOptions.flag = "-t"
           /\ reqs[r].outputOptions.value = 60 * TsUnit
           /\ reqs[r].inputOptions.value + reqs[r].outputOptions.value = reqs[r].timestamp
           /\ reqs[r].inputOptions.value >= 0

C16_Witness ==
    \E r \in Reqs :
        /\ reqs[r].engine = "ended"
        /\ reqs[r].timestamp = 132 * TsUnit + 4
        /\ reqs[r].inputOptions.value = 72 * TsUnit + 4
        /\ reqs[r].bytes > 0

\* C17: every response with status 200 declares Content-Type video/mp4, the
\* attachment filename clip_<floor(timestamp)>s.mp4 (clip_132s.mp4 for 132.4)
\* and the cache-disabling headers, and these are in place when the first
\* clip byte is written.
C17_ClipResponseHeaders ==
    \A r \in Reqs :
        (reqs[r].status = 200 \/ reqs[r].bytes > 0)
        => /\ reqs[r].contentType = "video/mp4"
           /\ reqs[r].filename.prefix = "clip_"
           /\ reqs[r].filename.suffix = "s.mp4"
           /\ reqs[r].filename.seconds * TsUnit <= reqs[r].timestamp
           /\ reqs[r].timestamp < (reqs[r].filename.seconds + 1) * TsUnit
           /\ reqs[r].noCache

C17_Witness ==
    \E r \in Reqs :
        /\ reqs[r].status = 200
        /\ reqs[r].bytes > 0
        /\ reqs[r].timestamp = 132 * TsUnit + 4
        /\ reqs[r].filename = [prefix |-> "clip_", seconds |-> 132, suffix |-> "s.mp4"]

\* The ingest failure kind a client reads off a rejected upload.
UploadFailureKind(reply) ==
    IF reply.error = "File too large. Maximum size is 2GB." THEN "PayloadTooLarge"
    ELSE IF reply.error = "Only video files are allowed" THEN "UnsupportedMediaType"
    ELSE IF reply.error = "No video file provided" THEN "NoFile"
    ELSE "None"

\* C18: an upload above the size limit is rejected as payload-too-large, an
\* upload whose declared type is not a video type as unsupported-media-type,
\* the two being different replies; these rejections and the one for a
\* missing file add no entry to the store and evict none.
C18_IngestRejections ==
    [][\A hdr \in {0} \cup SessionIds, file \in Files :
         Upload(hdr, file)
         => /\ (file.present /\ file.mimetype = "video/mp4" /\ file.tooLarge)
               => /\ lastReply'.status >= 400
                  /\ UploadFailureKind(lastReply') = "PayloadTooLarge"
                  /\ sessionVideos' = sessionVideos
            /\ (file.present /\ file.mimetype = "text/plain")
               => /\ lastReply'.status >= 400
                  /\ UploadFailureKind(lastReply') = "UnsupportedMediaType"
                  /\ sessionVideos' = sessionVideos
            /\ ~file.present
               => /\ lastReply'.status >= 400
                  /\ UploadFailureKind(lastReply') = "NoFile"
                  /\ sessionVideos' = sessionVideos]_vars

C18_Witness ==
    /\ lastReply.op = "upload"
    /\ lastReply.status = 400
    /\ UploadFailureKind(lastReply) = "PayloadTooLarge"
    /\ DOMAIN sessionVideos = {1}

SessionsIn(store) == {store[k].sessionId : k \in DOMAIN store}

\* C19: a successful upload answers a videoId that was not a key of the
\* store and is retrievable right after the call; the answered sessionId is
\* the X-Session-Id header when one was sent; without the header the
\* sessionId is fresh (no entry carries it) and no entry is evicted.
C19_FreshIdsOnIngest ==
    [][\A hdr \in {0} \cup SessionIds, file \in Files :
         (Upload(hdr, file) /\ lastReply'.status = 200)
         => /\ lastReply'.videoId \notin DOMAIN sessionVideos
            /\ lastReply'.videoId \notin DOMAIN uploadedBy
            /\ StoreGet(sessionVideos', lastReply'.videoId) # NotFound
            /\ sessionVideos'[lastReply'.videoId].sessionId = lastReply'.sessionId
            /\ hdr # 0 => lastReply'.sessionId = hdr
            /\ hdr = 0
               => /\ lastReply'.sessionId \notin SessionsIn(sessionVideos)
                  /\ \A v \in DOMAIN uploadedBy : uploadedBy[v] # lastReply'.sessionId
                  /\ DOMAIN sessionVideos \subseteq DOMAIN sessionVideos'
                  /\ \A k \in DOMAIN sessionVideos :
                        sessionVideos'[k] = sessionVideos[k]]_vars

\* Two uploads without a header: the second got its own session and the
\* first one's entry is still stored.
C19_Witness ==
    /\ lastReply.op = "upload"
    /\ lastReply.status = 200
    /\ lastReply.videoId = 2
    /\ DOMAIN sessionVideos = {1, 2}
    /\ sessionVideos[1].sessionId = GeneratedSessionId(1)
    /\ sessionVideos[2].sessionId = GeneratedSessionId(2)

\* Every entry of another session than s is still stored, unchanged.
OthersUntouched(s) ==
    \A k \in DOMAIN sessionVideos :
        sessionVideos[k].sessionId # s
        => (k \in DOMAIN sessionVideos' /\ sessionVideos'[k] = sessionVideos[k])

\* C20: an upload under sessionId s and a cleanup of session s remove only
\* entries whose sessionId is s; every entry of another session stays in
\* the store unchanged.
C20_SessionIsolation ==
    [][/\ \A hdr \in {0} \cup SessionIds, file \in Files :
            (Upload(hdr, file) /\ lastReply'.status = 200)
            => OthersUntouched(lastReply'.sessionId)
       /\ \A sessionId \in SessionIds :
            CleanupSession(sessionId) => OthersUntouched(sessionId)]_vars

\* A cleanup removed the entry of its session while another session's entry
\* stayed.
C20_Witness ==
    /\ lastReply.op = "cleanup"
    /\ lastReply.cleanedCount = 1
    /\ DOMAIN uploadedBy = {1, 2}
    /\ \E k \in DOMAIN sessionVideos :
          /\ DOMAIN sessionVideos = {k}
          /\ sessionVideos[k].sessionId # lastReply.sessionId

\* C21: the bytes of an uploaded video are never written to disk: no file
\* under the temp root ever holds the content of an upload.
C21_UploadsNeverOnDisk ==
    \A d \in DOMAIN tmp, n \in VideoIds : tmp[d] # FileBytes(n)

\* A successful upload that answered videoId k / that ran under sessionId s.
IngestOf(k) ==
    \E hdr \in {0} \cup SessionIds, file \in Files :
        Upload(hdr, file) /\ lastReply'.status = 200 /\ lastReply'.videoId = k

IngestUnder(s) ==
    \E hdr \in {0} \cup SessionIds, file \in Files :
        Upload(hdr, file) /\ lastReply'.status = 200 /\ lastReply'.sessionId = s

\* C22: a store entry comes into being only by a successful upload that
\* answers its videoId, is never modified while it is stored, and goes away
\* only by a later upload under its sessionId, a cleanup of its sessionId or
\* the shutdown; snip requests (lookup and extraction) and uploaded-video
\* streaming leave the store as it is.
C22_EntryLifecycle ==
    [][/\ \A k \in (DOMAIN sessionVideos') \ (DOMAIN sessionVideos) : IngestOf(k)
       /\ \A k \in (DOMAIN sessionVideos) \cap (DOMAIN sessionVideos') :
             sessionVideos'[k] = sessionVideos[k]
       /\ \A k \in (DOMAIN sessionVideos) \ (DOMAIN sessionVideos') :
             \/ IngestUnder(sessionVideos[k].sessionId)
             \/ CleanupSession(sessionVideos[k].sessionId)
             \/ SweepExit
       /\ (reqs' # reqs \/ \E v \in VideoIds, range \in Ranges : StreamUploaded(v, range))
          => sessionVideos' = sessionVideos]_vars

\* The process has exited after an upload was superseded by a second one of
\* its session, the stored video was streamed and a snip request read it.
C22_Witness ==
    /\ proc.phase = "exited"
    /\ sessionVideos = <<>>
    /\ DOMAIN uploadedBy = {1, 2}
    /\ uploadedBy[1] = uploadedBy[2]
    /\ lastReply.op = "stream"
    /\ lastReply.status = 200
    /\ \E r \in Reqs : reqs[r].storeRead /\ reqs[r].engine = "ended"

\* C23: when the process has exited after a shutdown signal, no entry of
\* /tmp whose name starts with 'video-labeling-' remains, whether it is the
\* workspace of a request in flight or was created while the sweep was
\* running; entries without the prefix are untouched; the store is empty.
C23_ShutdownSweep ==
    /\ ForeignEntry \in DOMAIN tmp
    /\ tmp[ForeignEntry] = NoBytes
    /\ proc.phase = "exited"
       => /\ \A name \in DOMAIN tmp : ~StartsWithPrefix(name)
          /\ sessionVideos = <<>>

\* C24: before the server serves a request, every 'video-labeling-'
\* directory left in /tmp by a previous process has been removed.
C24_StartupSweep ==
    (\/ \E r \in Reqs : Received(r)
     \/ lastReply # NoReply)
    => LeftoverDir \notin DOMAIN tmp

\* Request r is being served: received and its workspace not yet torn down.
InFlight(r) == reqs[r].pc \in {"ensureDir", "writeFile", "axios", "download", "catch",
                               "streaming"}

\* C25: two requests in flight never share a workspace directory, and a
\* teardown step of one request (catch block or 'close' listener) leaves
\* the workspace of every other request in place with its content.
C25_NoWorkspaceContention ==
    /\ [](\A r \in DOMAIN reqs, q \in DOMAIN reqs :
            (r # q /\ InFlight(r) /\ InFlight(q)) => TempDir(r) # TempDir(q))
    /\ [][\A r \in DOMAIN reqs, q \in DOMAIN reqs :
            (r # q /\ reqs'[r].removals > reqs[r].removals
             /\ TempDir(q) \in DOMAIN tmp)
            => /\ TempDir(q) \in DOMAIN tmp'
               /\ tmp'[TempDir(q)] = tmp[TempDir(q)]]_vars

\* Both requests reached streaming; one has been torn down by its 'close'
\* listener while the other's source file is still in place.
C25_Witness ==
    \E r \in DOMAIN reqs, q \in DOMAIN reqs :
        /\ r # q
        /\ reqs[r].pc = "streaming"
        /\ reqs[r].removals = 1
        /\ TempDir(r) \notin DOMAIN tmp
        /\ reqs[q].pc = "streaming"
        /\ ~reqs[q].closed
        /\ TempDir(q) \in DOMAIN tmp
        /\ tmp[TempDir(q)] = SourceBytes(reqs[q])

\* A store record with all of its fields set.
Complete(rec) ==
    /\ rec.sessionId # 0
    /\ rec.buffer # NoBytes
    /\ rec.size = Len(rec.buffer)
    /\ rec.mimetype # ""

\* C26: store handlers are atomic with respect to each other.  At every
\* point where a handler can run, each stored entry is complete and no
\* session has both a new and a not yet evicted old entry; what a snip
\* lookup or a streaming request got from the store is not-found or the
\* complete upload.
C26_StoreAtomicity ==
    /\ \A k \in DOMAIN sessionVideos : Complete(sessionVideos[k])
    /\ \A s \in SessionIds : Cardinality(EntriesOf(sessionVideos, s)) <= 1
    /\ \A r \in DOMAIN reqs :
          reqs[r].storeRead
          => \/ reqs[r].err = NotInSessionError /\ reqs[r].video = NoBytes
             \/ reqs[r].err # NotInSessionError
                /\ reqs[r].video = FileBytes(reqs[r].video_id)
    /\ lastReply.op = "stream"
       => \/ lastReply.status = 404 /\ lastReply.body = NoBytes
          \/ /\ lastReply.status = 200
             /\ lastReply.body = FileBytes(lastReply.videoId)
             /\ lastReply.contentLength = Len(lastReply.body)
             /\ lastReply.contentType # ""

\* A snip request read video 1 and is streaming its clip, and after its
\* lookup a second upload has come in.
C26_Witness ==
    \E r \in DOMAIN reqs :
        /\ reqs[r].storeRead
        /\ reqs[r].video = FileBytes(1)
        /\ reqs[r].pc = "streaming"
        /\ lastReply.op = "upload"
        /\ lastReply.videoId = 2
        /\ lastReply.sessionId = uploadedBy[1]

C28_MarkEventFindsVideo ==
    [][\A r \in Reqs :
          (r \in ui.pending /\ ~reqs[r].storeRead /\ reqs'[r].storeRead)
          => /\ reqs'[r].video_id = ui.sent
             /\ ui.sent \in DOMAIN sessionVideos
             /\ reqs'[r].err = NoError]_vars

\* C29: the validator has no upper bound on timestamp: a request that names
\* a source and carries a timestamp of at least 60 seconds, however large,
\* is not answered by the validator and goes on to acquisition.
HasSource(b) == b.video_url # "" \/ b.video_id # 0

C29_NoUpperBound ==
    [][\A r \in Reqs, b \in WideBodies :
          (SnipRequest(r, b) /\ HasSource(b) /\ b.hasTs
             /\ b.timestamp >= MinTimestamp * TsUnit)
          => /\ reqs'[r].pc = "ensureDir"
             /\ reqs'[r].status = 0
             /\ ~reqs'[r].ended
             /\ reqs'[r].timestamp = b.timestamp]_vars

C29_Witness ==
    \E r \in Reqs :
        /\ reqs[r].timestamp > OldCap * TsUnit
        /\ reqs[r].pc # "idle"
        /\ reqs[r].status = 0
        /\ reqs[r].created

\* C30: GET /api/uploaded-video/:videoId answers 404 for an id that is not
\* stored; without a Range header it answers with all the bytes and
\* Content-Length = size; with Range bytes=s-e (e defaulting to size - 1),
\* 0 <= s <= e < size, it answers 206 with exactly the bytes s..e,
\* Content-Length e - s + 1 and Content-Range bytes s-e/size.
RangeEnd(range, size) == IF range.hasEnd THEN range.end ELSE size - 1

BytesBetween(bytes, s, e) == [i \in 1..(e - s + 1) |-> bytes[s + i]]

ExpectedStreamReply(reply, store, videoId, range) ==
    /\ reply.op = "stream"
    /\ videoId \notin DOMAIN store => reply.status = 404
    /\ videoId \in DOMAIN store =>
         LET bytes == store[videoId].buffer
             size == store[videoId].size
             s == range.start
             e == RangeEnd(range, size)
         IN  /\ size = Len(bytes)
             /\ ~range.present =>
                   /\ reply.status = 200
                   /\ reply.body = bytes
                   /\ reply.contentLength = size
             /\ (range.present /\ 0 <= s /\ s <= e /\ e < size) =>
                   /\ reply.status = 206
                   /\ reply.body = BytesBetween(bytes, s, e)
                   /\ reply.contentLength = e - s + 1
                   /\ reply.contentRange = <<s, e, size>>

C30_UploadedVideoRanges ==
    [][\A videoId \in VideoIds, range \in Ranges :
          StreamUploaded(videoId, range)
          => ExpectedStreamReply(lastReply', sessionVideos, videoId, range)]_vars

C30_Witness ==
    /\ lastReply.op = "stream"
    /\ lastReply.status = 206
    /\ lastReply.contentRange = <<1, 1, 3>>
    /\ Len(lastReply.body) = 1

\* C31: the validation rules are checked in order: a request without any
\* source reference is rejected as 'missing required parameters' whatever its
\* timestamp, and 'timestamp must be at least 60 seconds' is reported only
\* for a request that has a source and a timestamp.
MissingParameters ==
    "Missing required parameters: either video_url or video_id, and timestamp"

TimestampTooSmall == "Timestamp must be at least 60 seconds"

C31_RulesInOrder ==
    \A r \in Reqs :
        Received(r) =>
          /\ (reqs[r].video_url = "" /\ reqs[r].video_id = 0)
             => /\ reqs[r].status = 400
                /\ reqs[r].error = MissingParameters
                /\ ~reqs[r].created
          /\ reqs[r].error = TimestampTooSmall
             => /\ reqs[r].status = 400
                /\ reqs[r].video_url # "" \/ reqs[r].video_id # 0
                /\ reqs[r].hasTs

C31_Witness ==
    \E r \in Reqs :
        /\ reqs[r].video_url = "" /\ reqs[r].video_id = 0
        /\ reqs[r].hasTs
        /\ reqs[r].timestamp > 0
        /\ reqs[r].timestamp < MinTimestamp * TsUnit
        /\ reqs[r].error = MissingParameters

\* C32: the failure names the violated rule: a request with a source and a
\* supplied numeric timestamp below 60 seconds, 0 included, is answered with
\* 'timestamp must be at least 60 seconds', never 'missing required
\* parameters'.
C32_FailureNamesRule ==
    \A r \in Reqs :
        (/\ Received(r)
         /\ reqs[r].video_url # "" \/ reqs[r].video_id # 0
         /\ reqs[r].hasTs
         /\ reqs[r].timestamp < MinTimestamp * TsUnit)
        => /\ reqs[r].status = 400
           /\ reqs[r].error = TimestampTooSmall

\* C33: an error payload is written to a response only while no clip byte
\* has been written to it: no response holds both clip bytes and an error
\* payload, and a request's status, once sent, is never sent again.
HasErrorPayload(q) == q.error # ""

C33_ErrorOrBytes ==
    /\ [](\A r \in Reqs :
            HasErrorPayload(reqs[r])
            => /\ reqs[r].bytes = 0
               /\ reqs[r].status >= 400
               /\ reqs[r].contentType = "application/json")
    /\ [][\A r \in Reqs :
            /\ reqs[r].status # 0 => reqs'[r].status = reqs[r].status
            /\ reqs[r].bytes > 0 => ~HasErrorPayload(reqs'[r])
            /\ HasErrorPayload(reqs[r])
               => /\ reqs'[r].error = reqs[r].error
                  /\ reqs'[r].bytes = reqs[r].bytes]_vars

C33_Witness ==
    \E r \in Reqs :
        /\ reqs[r].bytes > 0
        /\ reqs[r].engine = "failedLate"
        /\ reqs[r].status = 200
        /\ ~HasErrorPayload(reqs[r])

\* C34: when the client disconnects during acquisition, before the 'close'
\* listener is registered, the request's workspace is still eventually
\* removed and no ffmpeg command is left running on it.
C34_EarlyDisconnectCleansUp ==
    \A r \in Reqs :
        (reqs[r].disconnectAt = "acquisition")
        ~> (WorkspaceAbsent(r) /\ reqs[r].engine # "running")

\* C35: a clip request that found video v in the store finishes acquisition
\* with exactly the bytes v had at the lookup, also when v is evicted by an
\* upload of its session, removed by a session cleanup or cleared while the
\* request is writing the source file or extracting: the removal leaves the
\* request as it is and the file written holds v's bytes.
LookupHit(q) == q.storeRead /\ q.err # NotInSessionError

Evicted(q) == q.video_id \notin DOMAIN sessionVideos

C35_LookupSurvivesEviction ==
    /\ [](\A r \in Reqs :
            LookupHit(reqs[r])
            => /\ reqs[r].video = FileBytes(reqs[r].video_id)
               /\ (reqs[r].pc = "streaming" /\ ~WorkspaceAbsent(r))
                  => tmp[TempDir(r)] = FileBytes(reqs[r].video_id))
    /\ [][\A r \in Reqs :
            (/\ LookupHit(reqs[r])
             /\ reqs[r].video_id \in DOMAIN sessionVideos
             /\ reqs[r].video_id \notin DOMAIN sessionVideos')
            => reqs'[r] = reqs[r]]_vars

C35_Witness ==
    \E r \in Reqs :
        /\ LookupHit(reqs[r])
        /\ Evicted(reqs[r])
        /\ reqs[r].pc = "writeFile"
        /\ reqs[r].video = FileBytes(reqs[r].video_id)

\* C36: the Google Drive proxy never streams a response of content type
\* text/html: it pipes a response only if that response is not HTML, and
\* otherwise answers 500 'Failed to load video'.
C36_ProxyNeverStreamsHtml ==
    drive.pc = "done"
    => \/ /\ drive.piped
          /\ ~IncludesTextHtml(drive.response)
          /\ ~IncludesTextHtml(drive.contentType)
       \/ /\ ~drive.piped
          /\ drive.status = 500
          /\ drive.error = "Failed to load video"

\* C37: the page sends a snip request only when currentTime >= 60 and no
\* other snip request of the page is in flight (isProcessing false), and
\* isProcessing is false again once handleMarkEvent has run to its end,
\* whether the clip arrived, the server answered an error or the fetch threw.
C37_MarkEventStateMachine ==
    /\ [](/\ ui.inFlight <= 1
          /\ ui.isProcessing <=> ui.inFlight = 1
          /\ \A r \in ui.pending : reqs[r].timestamp >= MinTimestamp * TsUnit)
    /\ [][/\ ui'.inFlight > ui.inFlight
              => /\ ui.currentTime >= MinTimestamp * TsUnit
                 /\ ~ui.isProcessing
                 /\ ui.inFlight = 0
                 /\ ui'.sentAt = ui.currentTime
          /\ ui'.inFlight < ui.inFlight => ~ui'.isProcessing]_vars

C37_Witness ==
    /\ ui.inFlight = 1
    /\ ui.isProcessing
    /\ \E r \in DOMAIN reqs :
          /\ r \notin ui.pending
          /\ Received(r)
          /\ reqs[r].status = 200
          /\ ui.error = ""

\* C38: while an upload is in progress uploadStage is never 'idle' and the
\* current-file record is set (the reset timer of an earlier upload does not
\* reset a newer one), and isUploading is false whenever no handleFileUpload
\* is running.
C38_UploadStateMachine ==
    /\ ui.isUploading
       => /\ ui.uploadStage # "idle"
          /\ ui.currentUploadFile # 0
    /\ ui.uploadPc = "idle" => ~ui.isUploading

====
